---- MODULE Spec2Model ----
(***************************************************************************)
(* The filter rewrite engine of src/filter/opt.rs: simplify, step,         *)
(* iterate, optimize, their factoring helpers and the two memo tables.     *)
(*                                                                         *)
(* A Filter handle is represented by the term it interns (handles are      *)
(* equal iff the shapes are structurally equal).  A path is the sequence   *)
(* of its components; a component is a natural number standing for a name, *)
(* numbered in the names' lexical order (1 = "a", 2 = "b", ...).           *)
(***************************************************************************)
EXTENDS Naturals, Sequences, FiniteSets, TLC

\* ------------------------------------------------------------------ shapes

Nop == <<"Nop">>
Empty == <<"Empty">>
Subdir(p) == <<"Subdir", p>>
Prefix(p) == <<"Prefix", p>>
Chain(a, b) == <<"Chain", a, b>>
Compose(l) == <<"Compose", l>>
Subtract(a, b) == <<"Subtract", a, b>>

Tag(f) == f[1]
IsChain(f) == Tag(f) = "Chain"
IsCompose(f) == Tag(f) = "Compose"
IsSubdir(f) == Tag(f) = "Subdir"
IsPrefix(f) == Tag(f) = "Prefix"

\* the operands joined in the wrong order
Join_Reversed(x, y) == y \o x

\* PathBuf::join of two relative paths
Join(x, y) == x \o y

\* ----------------------------------------------------------- list helpers

\* a nested Compose spliced in twice
Flatten_Doubled(filters) ==
    LET spliced == [i \in 1..Len(filters) |->
                       IF IsCompose(filters[i])
                       THEN filters[i][2] \o filters[i][2] ELSE <<filters[i]>>]
        cat[i \in 0..Len(filters)] == IF i = 0 THEN <<>> ELSE cat[i - 1] \o spliced[i]
    IN cat[Len(filters)]

RECURSIVE Flatten(_)
\* simplify's loop over a Compose list: a nested Compose is spliced in
Flatten(filters) ==
    IF filters = <<>> THEN <<>>
    ELSE LET f == Head(filters)
         IN (IF IsCompose(f) THEN f[2] ELSE <<f>>) \o Flatten(Tail(filters))

\* dedup left out
Dedup_None(v) == v

\* retain left out
Retain_None(v, other) == v

RECURSIVE Dedup(_)
\* Vec::dedup: consecutive equal elements collapse to the first
Dedup(v) ==
    IF Len(v) <= 1 THEN v
    ELSE IF v[1] = v[2] THEN Dedup(Tail(v))
    ELSE <<v[1]>> \o Dedup(Tail(v))

RECURSIVE Retain(_, _)
\* Vec::retain(|x| !other.contains(x))
Retain(v, other) ==
    IF v = <<>> THEN <<>>
    ELSE (IF \E i \in 1..Len(other) : other[i] = Head(v) THEN <<>> ELSE <<Head(v)>>)
         \o Retain(Tail(v), other)

RECURSIVE last_chain(_, _)
last_chain(rest, filter) ==
    IF IsChain(filter) THEN last_chain(Chain(rest, filter[2]), filter[3])
    ELSE <<rest, filter>>

RECURSIVE GroupBy(_, _, _)
\* one pass of group: f joins the last group when its key equals the key of
\* that group's first element (Same(f, first)), else it opens a group
GroupBy(filters, res, pass) ==
    IF filters = <<>> THEN res
    ELSE LET f == Head(filters)
             n == Len(res)
             same == IF n = 0 THEN FALSE
                     ELSE IF pass = 1
                          THEN /\ IsChain(f)
                               /\ IsChain(res[n][1])
                               /\ f[2] = res[n][1][2]
                          ELSE last_chain(Nop, f)[2] = last_chain(Nop, res[n][1])[2]
         IN IF same
            THEN GroupBy(Tail(filters), [res EXCEPT ![n] = Append(@, f)], pass)
            ELSE GroupBy(Tail(filters), Append(res, <<f>>), pass)

group(filters) ==
    LET res == GroupBy(filters, <<>>, 1)
    IN IF Len(res) # Len(filters) THEN res ELSE GroupBy(filters, <<>>, 2)

RECURSIVE PathLess(_, _)
\* Path::partial_cmp: lexicographic on the components
PathLess(x, y) ==
    IF y = <<>> THEN FALSE
    ELSE IF x = <<>> THEN TRUE
    ELSE IF Head(x) # Head(y) THEN Head(x) < Head(y)
    ELSE PathLess(Tail(x), Tail(y))

RECURSIVE InsertSorted(_, _)
\* stable insertion of f after every element whose key is not greater
InsertSorted(sorted, f) ==
    IF sorted = <<>> THEN <<f>>
    ELSE IF PathLess(f[2][2], Head(sorted)[2][2])
         THEN <<f>> \o sorted
         ELSE <<Head(sorted)>> \o InsertSorted(Tail(sorted), f)

RECURSIVE StableSort(_, _)
StableSort(todo, sorted) ==
    IF todo = <<>> THEN sorted
    ELSE StableSort(Tail(todo), InsertSorted(sorted, Head(todo)))

\* sort_by is stable; the comparator clears ok on any pair that is not
\* (Chain(Subdir, _), Chain(Subdir, _)), and a list of one is never compared
prefix_sort(filters) ==
    LET ok == \/ Len(filters) <= 1
              \/ \A i \in 1..Len(filters) :
                    IsChain(filters[i]) /\ IsSubdir(filters[i][2])
    IN IF ok /\ Len(filters) > 1 THEN StableSort(filters, <<>>) ELSE filters

None == <<"None">>
Some(c, rest) == <<"Some", c, rest>>

common_pre(filters) ==
    IF /\ filters # <<>>
       /\ \A i \in 1..Len(filters) :
             IsChain(filters[i]) /\ filters[i][2] = filters[1][2]
    THEN Some(filters[1][2], [i \in 1..Len(filters) |-> filters[i][3]])
    ELSE None

common_post(filters) ==
    LET lc == [i \in 1..Len(filters) |-> last_chain(Nop, filters[i])]
    IN IF /\ filters # <<>>
          /\ \A i \in 1..Len(filters) : lc[i][2] = lc[1][2]
          /\ lc[1][2] # Nop
       THEN Some(lc[1][2], [i \in 1..Len(filters) |-> lc[i][1]])
       ELSE None

\* ------------------------------------------------------------- memo tables

\* a table is a function from the keys it holds to their values
EmptyTable == <<>>
Has(tbl, k) == k \in DOMAIN tbl
\* the table emptied before the entry is stored
Insert_Clearing(tbl, k, v) == [x \in {k} |-> v]
\* the key stored in place of the value
Insert_KeyAsValue(tbl, k, v) == [x \in (DOMAIN tbl) \cup {k} |-> IF x = k THEN k ELSE tbl[x]]

\* HashMap::insert: the key's value is set, or replaced
Insert(tbl, k, v) == [x \in (DOMAIN tbl) \cup {k} |-> IF x = k THEN v ELSE tbl[x]]

\* ----------------------------------------------------------------- simplify

\* the recursive simplify calls one rule application makes, in call order
SimplifySubs(filter) ==
    CASE IsCompose(filter) -> Flatten(filter[2])
      [] IsChain(filter) ->
            LET a == filter[2]
                b == filter[3]
            IN CASE IsChain(b) -> <<>>
                 [] IsPrefix(a) /\ IsPrefix(b) -> <<>>
                 [] IsSubdir(a) /\ IsSubdir(b) -> <<>>
                 [] IsChain(a) /\ IsPrefix(a[3]) /\ IsPrefix(b) -> <<a[2]>>
                 [] OTHER -> <<a, b>>
      [] Tag(filter) = "Subtract" -> <<filter[2], filter[3]>>
      [] OTHER -> <<>>

\* a rule Chain(Nop, b) -> b added in front of simplify's Chain rules
SimplifyBuild_DropNop(filter, rs) ==
    CASE IsCompose(filter) -> Compose(rs)
      [] IsChain(filter) ->
            LET a == filter[2]
                b == filter[3]
            IN CASE a = Nop -> b
                 [] a # Nop /\ IsChain(b) -> Chain(Chain(a, b[2]), b[3])
                 [] IsPrefix(a) /\ IsPrefix(b) -> Prefix(Join(b[2], a[2]))
                 [] IsSubdir(a) /\ IsSubdir(b) -> Subdir(Join(a[2], b[2]))
                 [] IsChain(a) /\ IsPrefix(a[3]) /\ IsPrefix(b) ->
                        Chain(rs[1], Prefix(Join(b[2], a[3][2])))
                 [] OTHER -> Chain(rs[1], rs[2])
      [] Tag(filter) = "Subtract" -> Subtract(rs[1], rs[2])
      [] OTHER -> filter

\* the shape one rule application builds from the results rs of those calls
SimplifyBuild(filter, rs) ==
    CASE IsCompose(filter) -> Compose(rs)
      [] IsChain(filter) ->
            LET a == filter[2]
                b == filter[3]
            IN CASE IsChain(b) -> Chain(Chain(a, b[2]), b[3])
                 [] IsPrefix(a) /\ IsPrefix(b) -> Prefix(Join(b[2], a[2]))
                 [] IsSubdir(a) /\ IsSubdir(b) -> Subdir(Join(a[2], b[2]))
                 [] IsChain(a) /\ IsPrefix(a[3]) /\ IsPrefix(b) ->
                        Chain(rs[1], Prefix(Join(b[2], a[3][2])))
                 [] OTHER -> Chain(rs[1], rs[2])
      [] Tag(filter) = "Subtract" -> Subtract(rs[1], rs[2])
      [] OTHER -> filter

\* --------------------------------------------------------------------- step

\* the Compose arm of step for a list of two or more, after dedup
StepComposeKind(filters) ==
    IF common_pre(filters) # None THEN "pre"
    ELSE IF common_post(filters) # None THEN "post"
    ELSE IF Len(group(filters)) # Len(filters) THEN "group"
    ELSE "each"

\* the recursive step calls one rule application makes, in call order
StepSubs(filter) ==
    CASE IsCompose(filter) ->
            IF Len(filter[2]) <= 1 THEN <<>>
            ELSE LET filters == Dedup(filter[2])
                 IN IF StepComposeKind(filters) = "each"
                    THEN prefix_sort(filters) ELSE <<>>
      [] IsChain(filter) ->
            LET a == filter[2]
                b == filter[3]
            IN IF IsChain(a) \/ a = Nop \/ b = Nop THEN <<>> ELSE <<a, b>>
      [] Tag(filter) = "Subtract" ->
            LET a == filter[2]
                b == filter[3]
            IN CASE a = b -> <<>>
                 [] a # b /\ (a = Empty \/ b = Empty) -> <<>>
                 [] a # b /\ IsChain(a) /\ IsChain(b) /\ a[2] = b[2] -> <<>>
                 [] a # b /\ IsCompose(a) /\ IsCompose(b) ->
                        << Compose(Retain(a[2], b[2])), Compose(Retain(b[2], a[2])) >>
                 [] OTHER -> <<a, b>>
      [] OTHER -> <<>>

\* step's rule match with one rule changed, the one fault names:
\*   "absorb": Subtract(a, Empty) gives Empty
\*   "split":  the split of a Prefix nests as the split of a Subdir does
\*   "nop":    Chain(a, Nop) is left as it is
StepBuildWith(filter, rs, fault) ==
    CASE IsSubdir(filter) ->
            IF Len(filter[2]) > 1
            THEN Chain(Subdir(<<Head(filter[2])>>), Subdir(Tail(filter[2])))
            ELSE filter
      [] IsPrefix(filter) ->
            IF Len(filter[2]) > 1
            THEN IF fault = "split"
                 THEN Chain(Prefix(<<Head(filter[2])>>), Prefix(Tail(filter[2])))
                 ELSE Chain(Prefix(Tail(filter[2])), Prefix(<<Head(filter[2])>>))
            ELSE filter
      [] IsCompose(filter) ->
            IF Len(filter[2]) = 0 THEN Empty
            ELSE IF Len(filter[2]) = 1 THEN filter[2][1]
            ELSE LET filters == Dedup(filter[2])
                     kind == StepComposeKind(filters)
                 IN CASE kind = "pre" ->
                            Chain(common_pre(filters)[2], Compose(common_pre(filters)[3]))
                      [] kind = "post" ->
                            Chain(Compose(common_post(filters)[3]), common_post(filters)[2])
                      [] kind = "group" ->
                            Compose([i \in 1..Len(group(filters)) |->
                                        Compose(group(filters)[i])])
                      [] OTHER -> Compose(rs)
      [] IsChain(filter) ->
            LET a == filter[2]
                b == filter[3]
            IN CASE IsChain(a) -> Chain(a[2], Chain(a[3], b))
                 [] ~IsChain(a) /\ a = Nop -> b
                 [] ~IsChain(a) /\ a # Nop /\ b = Nop ->
                        IF fault = "nop" THEN filter ELSE a
                 [] OTHER -> Chain(rs[1], rs[2])
      [] Tag(filter) = "Subtract" ->
            LET a == filter[2]
                b == filter[3]
            IN CASE a = b -> Empty
                 [] a # b /\ a = Empty -> Empty
                 [] a # b /\ a # Empty /\ b = Empty ->
                        IF fault = "absorb" THEN Empty ELSE a
                 [] a # b /\ IsChain(a) /\ IsChain(b) /\ a[2] = b[2] ->
                        Chain(a[2], Subtract(a[3], b[3]))
                 [] OTHER -> Subtract(rs[1], rs[2])
      [] OTHER -> filter

StepBuild_EmptyAbsorbs(filter, rs) == StepBuildWith(filter, rs, "absorb")
StepBuild_PrefixSplitAsSubdir(filter, rs) == StepBuildWith(filter, rs, "split")
StepBuild_KeepsTrailingNop(filter, rs) == StepBuildWith(filter, rs, "nop")

\* the shape one rule application builds from the results rs of those calls
StepBuild(filter, rs) ==
    CASE IsSubdir(filter) ->
            IF Len(filter[2]) > 1
            THEN Chain(Subdir(<<Head(filter[2])>>), Subdir(Tail(filter[2])))
            ELSE filter
      [] IsPrefix(filter) ->
            IF Len(filter[2]) > 1
            THEN Chain(Prefix(Tail(filter[2])), Prefix(<<Head(filter[2])>>))
            ELSE filter
      [] IsCompose(filter) ->
            IF Len(filter[2]) = 0 THEN Empty
            ELSE IF Len(filter[2]) = 1 THEN filter[2][1]
            ELSE LET filters == Dedup(filter[2])
                     kind == StepComposeKind(filters)
                 IN CASE kind = "pre" ->
                            Chain(common_pre(filters)[2], Compose(common_pre(filters)[3]))
                      [] kind = "post" ->
                            Chain(Compose(common_post(filters)[3]), common_post(filters)[2])
                      [] kind = "group" ->
                            Compose([i \in 1..Len(group(filters)) |->
                                        Compose(group(filters)[i])])
                      [] OTHER -> Compose(rs)
      [] IsChain(filter) ->
            LET a == filter[2]
                b == filter[3]
            IN CASE IsChain(a) -> Chain(a[2], Chain(a[3], b))
                 [] ~IsChain(a) /\ a = Nop -> b
                 [] ~IsChain(a) /\ a # Nop /\ b = Nop -> a
                 [] OTHER -> Chain(rs[1], rs[2])
      [] Tag(filter) = "Subtract" ->
            LET a == filter[2]
                b == filter[3]
            IN CASE a = b -> Empty
                 [] a # b /\ a = Empty -> Empty
                 [] a # b /\ a # Empty /\ b = Empty -> a
                 [] a # b /\ IsChain(a) /\ IsChain(b) /\ a[2] = b[2] ->
                        Chain(a[2], Subtract(a[3], b[3]))
                 [] OTHER -> Subtract(rs[1], rs[2])
      [] OTHER -> filter

\* ------------------------------------------- the two functions, table-threaded

\* the result of one rule application taken for the fixed point
Converged_Always(result, original) == TRUE

\* line 73: the rule application changed nothing, result is the fixed point
Converged(result, original) == result = original

RECURSIVE SimplifyT(_, _)
RECURSIVE SimplifyAll(_, _, _)
\* simplify over a list, left to right, the table passing from call to call
SimplifyAll(subs, rs, tbl) ==
    IF subs = <<>> THEN [rs |-> rs, t |-> tbl]
    ELSE LET one == SimplifyT(Head(subs), tbl)
         IN SimplifyAll(Tail(subs), Append(rs, one.r), one.t)

\* simplify(filter) run to completion against table tbl: the value returned
\* and the table left behind
SimplifyT(filter, tbl) ==
    IF Has(tbl, filter) THEN [r |-> tbl[filter], t |-> tbl]
    ELSE LET args == SimplifyAll(SimplifySubs(filter), <<>>, tbl)
             result == SimplifyBuild(filter, args.rs)
             fin == IF Converged(result, filter) THEN [r |-> result, t |-> args.t]
                    ELSE SimplifyT(result, args.t)
         IN [r |-> fin.r, t |-> Insert(fin.t, filter, fin.r)]

\* the recursive calls left out: the operands are taken as they are
StepAll_Skip(subs, rs, tbl) == [rs |-> subs, t |-> tbl]

RECURSIVE StepT(_, _)
RECURSIVE StepAll(_, _, _)
StepAll(subs, rs, tbl) ==
    IF subs = <<>> THEN [rs |-> rs, t |-> tbl]
    ELSE LET one == StepT(Head(subs), tbl)
         IN StepAll(Tail(subs), Append(rs, one.r), one.t)

\* step(filter) run to completion against table tbl
StepT(filter, tbl) ==
    IF Has(tbl, filter) THEN [r |-> tbl[filter], t |-> tbl]
    ELSE LET args == StepAll(StepSubs(filter), <<>>, tbl)
             result == StepBuild(filter, args.rs)
         IN [r |-> result, t |-> Insert(args.t, filter, result)]

\* ------------------------------------------------------------------- inputs

\* longest path among the inputs, in components
MaxPathLen == 2
\* longest Compose list among the inputs
MaxCompose == 3
\* calls one caller makes in a row
MaxCalls == 2

Names == {1, 2}

Paths == UNION {[1..n -> Names] : n \in 1..MaxPathLen}
Leaves == {Nop, Empty} \cup {Subdir(p) : p \in Paths} \cup {Prefix(p) : p \in Paths}
Lists(S) == UNION {[1..n -> S] : n \in 0..MaxCompose}

Atoms == {Nop, Empty, Subdir(<<1>>), Subdir(<<2>>), Prefix(<<1>>)}
Heads == {Subdir(<<1>>), Subdir(<<2>>)}
Tails == {Nop, Prefix(<<1>>)}
InPlace == Chain(Subdir(<<1>>), Prefix(<<1>>))

ChainsOf(S, T) == {Chain(a, b) : a \in S, b \in T}
SubtractsOf(S, T) == {Subtract(a, b) : a \in S, b \in T}
ComposesOf(S) == {Compose(l) : l \in Lists(S)}
Binary(S, T) == ChainsOf(S, T) \cup SubtractsOf(S, T) \cup {Compose(<<a, b>>) : a \in S, b \in T}

\* the filters the calls are given: the leaves; every shape over the atoms;
\* shapes nested twice; Compose lists of chains with and without a common
\* head; Subtract of two Compose lists; chains of leaves with longer paths
Level1 == Binary(Atoms, Atoms) \cup ComposesOf(Atoms)
Level2 ==
    Binary(Binary(Atoms, Atoms), Atoms)
    \cup Binary(Atoms, Binary(Atoms, Atoms))
    \cup Binary(ChainsOf(Atoms, Atoms), ChainsOf(Atoms, Atoms))
    \cup ComposesOf(ChainsOf(Heads, Tails) \cup {Nop, Subdir(<<1>>)})
    \cup SubtractsOf(ComposesOf({Nop, InPlace}), ComposesOf({Nop, InPlace}))
    \cup ChainsOf(Leaves, Leaves)
\* Subdir and Prefix of the longest paths, one component longer than the
\* paths of the other leaves, so that the remainder of a split has two
Splits == {Subdir(p) : p \in [1..(MaxPathLen + 1) -> Names]}
          \cup {Prefix(p) : p \in [1..(MaxPathLen + 1) -> Names]}
\* Subtract of two Compose lists that share their middle element
Overlaps == {Subtract(Compose(<<a, b>>), Compose(<<b, c>>)) :
                a \in {Nop, InPlace, Subdir(<<1>>)},
                b \in {Nop, InPlace, Subdir(<<1>>)},
                c \in {Nop, InPlace, Subdir(<<1>>)}}
Inputs == Leaves \cup Level1 \cup Level2 \cup Splits \cup Overlaps

\* the filters concurrent callers are given: chains nested to the right,
\* which simplify re-nests and fuses and step splits again, a path of two
\* components, and Compose lists whose elements share their head
ConcInputs ==
    ChainsOf({Subdir(<<1>>)}, ChainsOf(Heads, Tails))
    \cup {Subdir(<<1, 2>>)}
    \cup {Compose(<<a, b>>) : a \in ChainsOf({Subdir(<<1>>)}, Tails),
                              b \in ChainsOf({Subdir(<<1>>)}, Tails)}
ConcCalls == {[fn |-> fn, arg |-> f] : fn \in {"simplify", "optimize"}, f \in ConcInputs}
Threads == {1, 2}

\* ---------------------------------------------------- one caller, sequential

VARIABLES
    SIMPLIFIED,   \* the simplify memo table
    OPTIMIZED,    \* the step memo table
    pc,           \* where the running call stands; "idle" between calls
    call,         \* the running (or last finished) call: [fn, arg]
    filter,       \* the local `filter` of optimize, and of the iterate it runs
    pretty,       \* the local `pretty` of optimize
    ret,          \* the value the last finished call returned
    prev,         \* the call finished before the current one: [fn, arg, ret]
    ncalls,       \* calls started so far
    th,           \* the concurrent callers: thread -> [call, stack, ret]
    mutex         \* table name -> the guard that holds the table's mutex

vars == <<SIMPLIFIED, OPTIMIZED, pc, call, filter, pretty, ret, prev, ncalls, th, mutex>>
seqvars == <<pc, call, filter, pretty, ret, prev, ncalls>>

NoCall == [fn |-> "none", arg |-> Nop, ret |-> Nop]

\* the two mutexes, by the name of the table each guards
Tables == {"SIMPLIFIED", "OPTIMIZED"}
\* a MutexGuard is a temporary of one statement of one call: it is known by
\* its thread, the depth of the call's frame and the statement, the lookup
\* or the insert
NoGuard == [owner |-> 0, frame |-> 0, op |-> "none"]
Guard(t, depth, op) == [owner |-> t, frame |-> depth, op |-> op]
Unlocked == [tbl \in Tables |-> NoGuard]

\* the state before the first call, which will be given an input of U
InitWith(U) ==
    /\ SIMPLIFIED = EmptyTable
    /\ OPTIMIZED = EmptyTable
    /\ pc = "idle"
    /\ call \in {[fn |-> "none", arg |-> f] : f \in U}
    /\ filter = Nop
    /\ pretty = Nop
    /\ ret = Nop
    /\ prev = NoCall
    /\ ncalls = 0
    /\ th = <<>>
    /\ mutex = Unlocked

Init == InitWith(Inputs)

\* the arguments a call may be given: the first call the input, a later call
\* what the call before it was given or returned
Args == IF ncalls = 0 THEN {call.arg} ELSE {call.arg, ret}

Begin(fn, f) ==
    /\ pc = "idle"
    /\ ncalls < MaxCalls
    /\ ncalls' = ncalls + 1
    /\ prev' = IF ncalls = 0 THEN NoCall
               ELSE [fn |-> call.fn, arg |-> call.arg, ret |-> ret]
    /\ call' = [fn |-> fn, arg |-> f]

\* simplify(f), lines 32-81
CallSimplify ==
    \E f \in Args :
        /\ Begin("simplify", f)
        /\ LET s == SimplifyT(f, SIMPLIFIED)
           IN /\ SIMPLIFIED' = s.t
              /\ ret' = s.r
        /\ UNCHANGED <<OPTIMIZED, pc, filter, pretty, th, mutex>>

\* step(f), lines 216-299
CallStep ==
    \E f \in Args :
        /\ Begin("step", f)
        /\ LET s == StepT(f, OPTIMIZED)
           IN /\ OPTIMIZED' = s.t
              /\ ret' = s.r
        /\ UNCHANGED <<SIMPLIFIED, pc, filter, pretty, th, mutex>>

\* iterate(f), line 202
CallIterate ==
    \E f \in Args :
        /\ Begin("iterate", f)
        /\ filter' = f
        /\ pc' = "iterate"
        /\ UNCHANGED <<SIMPLIFIED, OPTIMIZED, pretty, ret, th, mutex>>

\* optimize(f), line 15
CallOptimize ==
    \E f \in Args :
        /\ Begin("optimize", f)
        /\ filter' = f
        /\ pc' = "opt17"
        /\ UNCHANGED <<SIMPLIFIED, OPTIMIZED, pretty, ret, th, mutex>>

\* optimize, line 17: pretty = simplify(filter); then iterate(filter) starts
Optimize17 ==
    /\ pc = "opt17"
    /\ LET s == SimplifyT(filter, SIMPLIFIED)
       IN /\ SIMPLIFIED' = s.t
          /\ pretty' = s.r
    /\ pc' = "opt18"
    /\ UNCHANGED <<OPTIMIZED, call, filter, ret, prev, ncalls, th, mutex>>

\* iterate returning after one step
IterateDone_Always(f, optimized) == TRUE

\* line 205: step returned its input, the loop of iterate ends
IterateDone(f, optimized) == f = optimized

\* line 21: the round left the simplified filter as it was
OptimizeDone(f, p) == f = p

\* one round of iterate's loop, lines 203-209, in iterate(f) called alone, in
\* optimize's line 18 and in optimize's line 22.  When the round returns:
\* line 18 goes on with lines 19-21, filter = simplify(optimized) and the
\* comparison with pretty; line 22 and iterate alone return the fixed point
IterateRound ==
    /\ pc \in {"iterate", "opt18", "opt22"}
    /\ LET s == StepT(filter, OPTIMIZED)
           optimized == s.r
       IN /\ OPTIMIZED' = s.t
          /\ IF ~IterateDone(filter, optimized)
             THEN /\ filter' = optimized
                  /\ UNCHANGED <<SIMPLIFIED, pc, ret>>
             ELSE IF pc = "opt18"
             THEN LET q == SimplifyT(optimized, SIMPLIFIED)
                  IN /\ SIMPLIFIED' = q.t
                     /\ filter' = q.r
                     /\ pc' = IF OptimizeDone(q.r, pretty) THEN "opt22" ELSE "opt17"
                     /\ UNCHANGED ret
             ELSE /\ ret' = optimized
                  /\ pc' = "idle"
                  /\ UNCHANGED <<SIMPLIFIED, filter>>
    /\ UNCHANGED <<call, pretty, prev, ncalls, th, mutex>>

Next ==
    \/ CallSimplify
    \/ CallStep
    \/ CallIterate
    \/ CallOptimize
    \/ Optimize17
    \/ IterateRound

Spec == Init /\ [][Next]_vars


\* ------------------------------------------------------- concurrent callers

\* Each thread runs one call.  Its stack holds the frames of the calls in
\* progress, the innermost last.  A thread's step is one table operation
\* under the table's mutex (the lookup of line 33 or 217, the insert of line
\* 79 or 297) together with the thread-local computation that follows it, up
\* to the thread's next table operation.
\*   simplify, step frame: phase "lookup" (about to look original up),
\*     "args" (waiting for the call on subs[Len(rs) + 1]), "tail" (simplify
\*     only: waiting for simplify(result), line 76), "insert" (about to
\*     insert original -> r)
\*   iterate frame: original is the local `filter`; waiting for step(filter)
\*   optimize frame: original is the local `filter`; phase is the line whose
\*     call it waits for: "17", "18", "19" or "22"
Frame(fn, f, phase) ==
    [fn |-> fn, original |-> f, phase |-> phase,
     subs |-> <<>>, rs |-> <<>>, r |-> Nop, pretty |-> Nop]

Top(stack) == stack[Len(stack)]
Rest(stack) == SubSeq(stack, 1, Len(stack) - 1)

\* the top frame, a simplify or step frame in phase "args", goes on: it
\* makes its next recursive call, or builds its result
Advance(stack) ==
    LET top == Top(stack)
        n == Len(top.rs)
    IN IF n < Len(top.subs)
       THEN Append(stack, Frame(top.fn, top.subs[n + 1], "lookup"))
       ELSE IF top.fn = "simplify"
       THEN LET result == SimplifyBuild(top.original, top.rs)
            IN IF Converged(result, top.original)
               THEN Append(Rest(stack), [top EXCEPT !.phase = "insert", !.r = result])
               ELSE Rest(stack) \o << [top EXCEPT !.phase = "tail"],
                                      Frame("simplify", result, "lookup") >>
       ELSE Append(Rest(stack),
                   [top EXCEPT !.phase = "insert",
                               !.r = StepBuild(top.original, top.rs)])

RECURSIVE Deliver(_, _)
\* the call above the stack returns v to the stack's top frame; with no
\* frame left the thread's call has returned v
Deliver(stack, v) ==
    IF stack = <<>> THEN [stack |-> <<>>, ret |-> v]
    ELSE LET top == Top(stack)
             rest == Rest(stack)
         IN CASE top.fn \in {"simplify", "step"} /\ top.phase = "args" ->
                    [stack |-> Advance(Append(rest, [top EXCEPT !.rs = Append(@, v)])),
                     ret |-> Nop]
              [] top.fn = "simplify" /\ top.phase = "tail" ->
                    [stack |-> Append(rest, [top EXCEPT !.phase = "insert", !.r = v]),
                     ret |-> Nop]
              [] top.fn = "iterate" ->
                    IF IterateDone(top.original, v) THEN Deliver(rest, v)
                    ELSE [stack |-> rest \o << [top EXCEPT !.original = v],
                                               Frame("step", v, "lookup") >>,
                          ret |-> Nop]
              [] top.fn = "optimize" /\ top.phase = "17" ->
                    [stack |-> rest \o << [top EXCEPT !.pretty = v, !.phase = "18"],
                                          Frame("iterate", top.original, "step"),
                                          Frame("step", top.original, "lookup") >>,
                     ret |-> Nop]
              [] top.fn = "optimize" /\ top.phase = "18" ->
                    [stack |-> rest \o << [top EXCEPT !.phase = "19"],
                                          Frame("simplify", v, "lookup") >>,
                     ret |-> Nop]
              [] top.fn = "optimize" /\ top.phase = "19" ->
                    IF OptimizeDone(v, top.pretty)
                    THEN [stack |-> rest \o << [top EXCEPT !.original = v, !.phase = "22"],
                                               Frame("iterate", v, "step"),
                                               Frame("step", v, "lookup") >>,
                          ret |-> Nop]
                    ELSE [stack |-> rest \o << [top EXCEPT !.original = v, !.phase = "17"],
                                               Frame("simplify", v, "lookup") >>,
                          ret |-> Nop]
              [] OTHER -> Deliver(rest, v)

\* a thread entering its call: simplify(f) stands at line 33; optimize(f)
\* has called simplify(filter) at line 17
StartOf(c) ==
    [call |-> c,
     stack |-> IF c.fn = "simplify" THEN << Frame("simplify", c.arg, "lookup") >>
               ELSE << Frame("optimize", c.arg, "17"), Frame("simplify", c.arg, "lookup") >>,
     ret |-> Nop]

ConcInit ==
    /\ SIMPLIFIED = EmptyTable
    /\ OPTIMIZED = EmptyTable
    /\ pc = "idle"
    /\ call = [fn |-> "none", arg |-> Nop]
    /\ filter = Nop
    /\ pretty = Nop
    /\ ret = Nop
    /\ prev = NoCall
    /\ ncalls = 0
    /\ th \in [Threads -> {StartOf(c) : c \in ConcCalls}]
    /\ mutex = Unlocked

Running(t, fn, phase) ==
    /\ th[t].stack # <<>>
    /\ Top(th[t].stack).fn = fn
    /\ Top(th[t].stack).phase = phase

\* what a lookup does to the thread: a hit returns the stored value to the
\* caller, a miss goes on into the rule application
AfterLookup(t, tbl, subs) ==
    LET stack == th[t].stack
        top == Top(stack)
        next == IF Has(tbl, top.original)
                THEN Deliver(Rest(stack), tbl[top.original])
                ELSE [stack |-> Advance(Append(Rest(stack),
                                  [top EXCEPT !.phase = "args", !.subs = subs])),
                      ret |-> Nop]
    IN [th EXCEPT ![t] = [call |-> @.call, stack |-> next.stack, ret |-> next.ret]]

\* what an insert does to the thread: the call returns r
AfterInsert(t) ==
    LET next == Deliver(Rest(th[t].stack), Top(th[t].stack).r)
    IN [th EXCEPT ![t] = [call |-> @.call, stack |-> next.stack, ret |-> next.ret]]

\* lines 33-35
SimplifyLookup(t) ==
    /\ Running(t, "simplify", "lookup")
    /\ th' = AfterLookup(t, SIMPLIFIED, SimplifySubs(Top(th[t].stack).original))
    /\ UNCHANGED <<SIMPLIFIED, OPTIMIZED, seqvars, mutex>>

\* lines 79-80
SimplifyInsert(t) ==
    /\ Running(t, "simplify", "insert")
    /\ SIMPLIFIED' = Insert(SIMPLIFIED, Top(th[t].stack).original, Top(th[t].stack).r)
    /\ th' = AfterInsert(t)
    /\ UNCHANGED <<OPTIMIZED, seqvars, mutex>>

\* lines 217-219
StepLookup(t) ==
    /\ Running(t, "step", "lookup")
    /\ th' = AfterLookup(t, OPTIMIZED, StepSubs(Top(th[t].stack).original))
    /\ UNCHANGED <<SIMPLIFIED, OPTIMIZED, seqvars, mutex>>

\* lines 297-298
StepInsert(t) ==
    /\ Running(t, "step", "insert")
    /\ OPTIMIZED' = Insert(OPTIMIZED, Top(th[t].stack).original, Top(th[t].stack).r)
    /\ th' = AfterInsert(t)
    /\ UNCHANGED <<SIMPLIFIED, seqvars, mutex>>

ConcNext ==
    \E t \in Threads :
        \/ SimplifyLookup(t)
        \/ SimplifyInsert(t)
        \/ StepLookup(t)
        \/ StepInsert(t)

ConcSpec == ConcInit /\ [][ConcNext]_vars

\* ------------------------------------------- concurrent callers, lock by lock

\* The threads of the machine above, with the mutex of each table operation
\* made a step of its own: a thread whose call stands at a lookup or an
\* insert first locks the table's mutex, which waits while another guard
\* holds it; its next step is the operation itself, at whose end the
\* statement's temporaries, the guard among them, are dropped.

\* the table a simplify or step frame works on
TableOf(fn) == IF fn = "simplify" THEN "SIMPLIFIED" ELSE "OPTIMIZED"

\* the guard of the statement thread t's innermost call stands at
GuardOf(t) == Guard(t, Len(th[t].stack), Top(th[t].stack).phase)

\* thread t stands at a table operation, the mutex not yet locked for it
AtLock(t) ==
    /\ th[t].stack # <<>>
    /\ Top(th[t].stack).phase \in {"lookup", "insert"}
    /\ mutex[TableOf(Top(th[t].stack).fn)] # GuardOf(t)

\* thread t has locked the mutex for the operation its call stands at
Locked(t, fn, phase) ==
    /\ Running(t, fn, phase)
    /\ mutex[TableOf(fn)] = GuardOf(t)

\* the guard of the lookup dropped on a hit only, kept on a miss
LookupGuardDropped_OnHit(hit) == hit

\* lines 33-35 and 217-219: the guard is a temporary of the `if let`
\* statement; it is dropped when the statement ends, on the hit's return
\* and on a miss alike
LookupGuardDropped(hit) == TRUE

\* SIMPLIFIED.lock() / OPTIMIZED.lock() of lines 33, 79, 217 and 297: waits
\* until no guard holds the mutex
Lock(t) ==
    /\ AtLock(t)
    /\ mutex[TableOf(Top(th[t].stack).fn)] = NoGuard
    /\ mutex' = [mutex EXCEPT ![TableOf(Top(th[t].stack).fn)] = GuardOf(t)]
    /\ UNCHANGED <<SIMPLIFIED, OPTIMIZED, seqvars, th>>

\* the mutex after the lookup of key k in table tbl
AfterLookupMutex(name, tbl, k) ==
    IF LookupGuardDropped(Has(tbl, k)) THEN [mutex EXCEPT ![name] = NoGuard] ELSE mutex

\* lines 33-35, the mutex locked
LockedSimplifyLookup(t) ==
    /\ Locked(t, "simplify", "lookup")
    /\ th' = AfterLookup(t, SIMPLIFIED, SimplifySubs(Top(th[t].stack).original))
    /\ mutex' = AfterLookupMutex("SIMPLIFIED", SIMPLIFIED, Top(th[t].stack).original)
    /\ UNCHANGED <<SIMPLIFIED, OPTIMIZED, seqvars>>

\* line 79, the mutex locked; the guard is dropped at the statement's end
LockedSimplifyInsert(t) ==
    /\ Locked(t, "simplify", "insert")
    /\ SIMPLIFIED' = Insert(SIMPLIFIED, Top(th[t].stack).original, Top(th[t].stack).r)
    /\ th' = AfterInsert(t)
    /\ mutex' = [mutex EXCEPT !["SIMPLIFIED"] = NoGuard]
    /\ UNCHANGED <<OPTIMIZED, seqvars>>

\* lines 217-219, the mutex locked
LockedStepLookup(t) ==
    /\ Locked(t, "step", "lookup")
    /\ th' = AfterLookup(t, OPTIMIZED, StepSubs(Top(th[t].stack).original))
    /\ mutex' = AfterLookupMutex("OPTIMIZED", OPTIMIZED, Top(th[t].stack).original)
    /\ UNCHANGED <<SIMPLIFIED, OPTIMIZED, seqvars>>

\* line 297, the mutex locked
LockedStepInsert(t) ==
    /\ Locked(t, "step", "insert")
    /\ OPTIMIZED' = Insert(OPTIMIZED, Top(th[t].stack).original, Top(th[t].stack).r)
    /\ th' = AfterInsert(t)
    /\ mutex' = [mutex EXCEPT !["OPTIMIZED"] = NoGuard]
    /\ UNCHANGED <<SIMPLIFIED, seqvars>>

LockNext ==
    \E t \in Threads :
        \/ Lock(t)
        \/ LockedSimplifyLookup(t)
        \/ LockedSimplifyInsert(t)
        \/ LockedStepLookup(t)
        \/ LockedStepInsert(t)

LockSpec == ConcInit /\ [][LockNext]_vars

\* ------------------------------------------------ the evaluator (collaborator)

\* a tree is the set of the paths of its files
TreeFiles == {<<1, 1>>, <<1, 2>>, <<2, 1>>, <<2>>}
Trees == SUBSET TreeFiles

RECURSIVE Eval(_, _)
\* the content filter f selects from tree t, by the meaning of each shape
Eval(f, t) ==
    CASE f = Nop -> t
      [] f = Empty -> {}
      [] IsSubdir(f) ->
            {SubSeq(q, Len(f[2]) + 1, Len(q)) :
                q \in {q \in t : /\ Len(q) > Len(f[2])
                                 /\ SubSeq(q, 1, Len(f[2])) = f[2]}}
      [] IsPrefix(f) -> {f[2] \o q : q \in t}
      [] IsChain(f) -> Eval(f[3], Eval(f[2], t))
      [] IsCompose(f) -> UNION {Eval(f[2][i], t) : i \in 1..Len(f[2])}
      [] OTHER -> Eval(f[2], t) \ Eval(f[3], t)

\* -------------------------------------------------------------- properties

\* what a call returns in a process whose tables are still empty
simplify(f) == SimplifyT(f, EmptyTable).r
step(f) == StepT(f, EmptyTable).r

\* the last call was fn and it has returned
Finished(fn) == pc = "idle" /\ ncalls > 0 /\ call.fn = fn
\* the last call was fn, given what the call before it, also fn, returned
Twice(fn) == Finished(fn) /\ prev.fn = fn /\ call.arg = prev.ret

\* C1: optimize is idempotent: optimize applied to a value optimize returned
\* returns that value, with the memo tables as the earlier calls left them
\* and with empty ones (the returned value is again the result of a round
\* that changes nothing)
C1_OptimizeIdempotent ==
    Twice("optimize") => ret = call.arg

C1_Witness ==
    /\ Twice("optimize")
    /\ prev.arg # prev.ret
    /\ simplify(prev.arg) # prev.arg

\* C2: simplify is idempotent: simplify applied to a value simplify returned
\* returns that value, whether the table still holds the earlier call's
\* entries or is empty
C2_SimplifyIdempotent ==
    /\ Twice("simplify") => ret = call.arg
    /\ Finished("simplify") => simplify(ret) = ret

C2_Witness ==
    /\ Twice("simplify")
    /\ prev.arg # prev.ret
    /\ IsChain(prev.arg) /\ IsChain(prev.arg[3])

\* longest cycle of step looked for
MaxCycle == 3

RECURSIVE StepN(_, _, _)
\* step applied n times in a row, from table tbl on
StepN(f, n, tbl) ==
    IF n = 0 THEN f
    ELSE LET s == StepT(f, tbl) IN StepN(s.r, n - 1, s.t)

\* step sends f round a cycle of two or more filters
OnStepCycle(f, tbl) ==
    /\ StepN(f, 1, tbl) # f
    /\ \E n \in 2..MaxCycle : StepN(f, n, tbl) = f

\* C3: iterate terminates: its loop never holds a filter that step sends
\* round a cycle of two or more (the loop has no other exit than a step that
\* returns its input, so from such a filter it would run for ever)
C3_IterateTerminates ==
    pc = "iterate" => ~OnStepCycle(filter, OPTIMIZED)

\* C4: the value iterate returns is a fixed point of step: step returns it
\* unchanged against the table as it stands, against an empty table, and in
\* a following call step(iterate(f))
C4_IterateFixedPoint ==
    /\ Finished("iterate") => /\ StepT(ret, OPTIMIZED).r = ret
                              /\ step(ret) = ret
    /\ (Finished("step") /\ prev.fn = "iterate" /\ call.arg = prev.ret)
          => ret = call.arg

C4_Witness ==
    /\ Finished("step") /\ prev.fn = "iterate" /\ call.arg = prev.ret
    /\ prev.ret # prev.arg
    /\ step(prev.arg) # prev.ret

RECURSIVE iterate(_)
\* lines 201-210, in a process of its own
iterate(f) ==
    LET optimized == step(f)
    IN IF IterateDone(f, optimized) THEN optimized ELSE iterate(optimized)

RECURSIVE optimize(_)
\* lines 14-25, in a process of its own
optimize(f) ==
    LET p == simplify(f)
        g == simplify(iterate(f))
    IN IF OptimizeDone(g, p) THEN iterate(g) ELSE optimize(g)

\* what a call returns when it runs alone
Sequential(c) == IF c.fn = "simplify" THEN simplify(c.arg) ELSE optimize(c.arg)

\* C5: under every interleaving of two threads' calls of simplify and
\* optimize, a call that has returned returned what it returns run alone,
\* and the tables hold only entries of simplify and of step
C5_ConcurrentAsSequential ==
    /\ \A t \in DOMAIN th :
          th[t].stack = <<>> => th[t].ret = Sequential(th[t].call)
    /\ \A k \in DOMAIN SIMPLIFIED : SIMPLIFIED[k] = simplify(k)
    /\ \A k \in DOMAIN OPTIMIZED : OPTIMIZED[k] = step(k)

\* thread 2 has returned from simplify(f), changed, while thread 1 is inside
\* optimize(f): in the step of an iterate, with both tables holding entries
C5_Witness ==
    /\ DOMAIN th = Threads
    /\ th[1].call.arg = th[2].call.arg
    /\ th[1].call.fn = "optimize" /\ th[2].call.fn = "simplify"
    /\ th[2].stack = <<>> /\ th[2].ret # th[2].call.arg
    /\ Len(th[1].stack) >= 3 /\ Top(th[1].stack).fn = "step"
    /\ DOMAIN SIMPLIFIED # {} /\ DOMAIN OPTIMIZED # {}

\* C6 as claimed: simplify(Chain(Nop, f)) is simplify(f), for f other than Nop
C6_SimplifyDropsLeadingNop ==
    (/\ Finished("simplify")
     /\ IsChain(call.arg) /\ call.arg[2] = Nop /\ call.arg[3] # Nop)
        => ret = SimplifyT(call.arg[3], SIMPLIFIED).r

\* C6 amended: simplify keeps a leading Nop: for f other than Nop and not a
\* Chain, simplify(Chain(Nop, f)) is Chain(Nop, simplify(f))
C6_SimplifyKeepsLeadingNop ==
    (/\ Finished("simplify")
     /\ IsChain(call.arg) /\ call.arg[2] = Nop /\ call.arg[3] # Nop
     /\ ~IsChain(call.arg[3]))
        => ret = Chain(Nop, SimplifyT(call.arg[3], SIMPLIFIED).r)

C6_Witness ==
    /\ Finished("simplify")
    /\ IsChain(call.arg) /\ call.arg[2] = Nop
    /\ IsCompose(call.arg[3]) /\ Len(call.arg[3][2]) = 2

\* C7: optimize terminates: the iterate of its line 18 or 22 never holds a
\* filter that step sends round a cycle (from which that call of iterate,
\* and optimize with it, would not return)
C7_OptimizeTerminates ==
    pc \in {"opt18", "opt22"} => ~OnStepCycle(filter, OPTIMIZED)

\* every element of list l is a Chain with the leading operand of the first
CommonHead(l) == \A i \in 1..Len(l) : IsChain(l[i]) /\ l[i][2] = l[1][2]
Seconds(l) == [i \in 1..Len(l) |-> l[i][3]]

RECURSIVE Runs(_)
\* list l with each run of consecutive equal elements cut to one element
Runs(l) ==
    IF Len(l) <= 1 THEN l
    ELSE LET front == Runs(SubSeq(l, 1, Len(l) - 1))
         IN IF l[Len(l)] = l[Len(l) - 1] THEN front ELSE Append(front, l[Len(l)])

\* C8 as claimed: a Compose list of two or more chains with one leading
\* operand A steps to Chain(A, Compose(the second operands, in order))
C8_CommonPrefixFactoring ==
    (/\ Finished("step")
     /\ IsCompose(call.arg) /\ Len(call.arg[2]) >= 2 /\ CommonHead(call.arg[2]))
        => ret = Chain(call.arg[2][1][2], Compose(Seconds(call.arg[2])))

\* C8 amended: ... steps to Chain(A, Compose(the second operands, in order,
\* of the list with each run of consecutive equal elements cut to one))
C8_CommonPrefixFactoringDedup ==
    (/\ Finished("step")
     /\ IsCompose(call.arg) /\ Len(call.arg[2]) >= 2 /\ CommonHead(call.arg[2]))
        => ret = Chain(call.arg[2][1][2], Compose(Seconds(Runs(call.arg[2]))))

C8_Witness ==
    /\ Finished("step")
    /\ IsCompose(call.arg) /\ Len(call.arg[2]) = 3 /\ CommonHead(call.arg[2])
    /\ call.arg[2][1] = call.arg[2][2] /\ call.arg[2][2] # call.arg[2][3]
    /\ Len(ret[3][2]) = 2

\* C9: optimize(f) selects from every tree what f selects
C9_OptimizePreservesMeaning ==
    Finished("optimize") => \A t \in Trees : Eval(ret, t) = Eval(call.arg, t)

\* C10: simplify fuses Chain(Subdir(x), Subdir(y)) to Subdir(x/y) and
\* Chain(Prefix(x), Prefix(y)) to Prefix(y/x)
C10_PathFusion ==
    /\ (/\ Finished("simplify")
        /\ IsChain(call.arg) /\ IsSubdir(call.arg[2]) /\ IsSubdir(call.arg[3]))
          => ret = Subdir(call.arg[2][2] \o call.arg[3][2])
    /\ (/\ Finished("simplify")
        /\ IsChain(call.arg) /\ IsPrefix(call.arg[2]) /\ IsPrefix(call.arg[3]))
          => ret = Prefix(call.arg[3][2] \o call.arg[2][2])

C10_Witness ==
    /\ Finished("simplify")
    /\ call.arg = Chain(Prefix(<<1, 2>>), Prefix(<<2>>))
    /\ ret = Prefix(<<2, 1, 2>>)

\* C11: Subtract elimination under one step: step(Subtract(f, f)) is Empty,
\* step(Subtract(Empty, f)) is Empty, and step(Subtract(f, Empty)) is f
\* itself (not stepped)
C11_SubtractElimination ==
    (Finished("step") /\ Tag(call.arg) = "Subtract") =>
        /\ call.arg[2] = call.arg[3] => ret = Empty
        /\ call.arg[2] = Empty => ret = Empty
        /\ call.arg[3] = Empty => ret = call.arg[2]

\* step(Subtract(f, Empty)) has returned f, an f that step would rewrite
C11_Witness ==
    /\ Finished("step") /\ Tag(call.arg) = "Subtract"
    /\ call.arg[3] = Empty /\ ret = call.arg[2]
    /\ IsChain(call.arg[2]) /\ step(call.arg[2]) # call.arg[2]

\* C12: multi-component split: for a path of first component c and non-empty
\* remainder r, step(Subdir(c/r)) is Chain(Subdir(c), Subdir(r)) and
\* step(Prefix(c/r)) is Chain(Prefix(r), Prefix(c)); a Subdir or Prefix of a
\* single component is returned unchanged
C12_MultiComponentSplit ==
    (Finished("step") /\ (IsSubdir(call.arg) \/ IsPrefix(call.arg))) =>
        LET path == call.arg[2]
            c == SubSeq(path, 1, 1)
            r == SubSeq(path, 2, Len(path))
        IN /\ Len(path) = 1 => ret = call.arg
           /\ (Len(path) > 1 /\ IsSubdir(call.arg)) => ret = Chain(Subdir(c), Subdir(r))
           /\ (Len(path) > 1 /\ IsPrefix(call.arg)) => ret = Chain(Prefix(r), Prefix(c))

\* step has split a Prefix whose remainder has two components
C12_Witness ==
    /\ Finished("step")
    /\ call.arg = Prefix(<<1, 2, 1>>)
    /\ ret = Chain(Prefix(<<2, 1>>), Prefix(<<1>>))

\* C13 as claimed: step(Chain(Nop, f)) is f for every f, and
\* step(Chain(a, Nop)) is a for every a
C13_NopEliminated ==
    (Finished("step") /\ IsChain(call.arg)) =>
        /\ call.arg[2] = Nop => ret = call.arg[3]
        /\ call.arg[3] = Nop => ret = call.arg[2]

\* C13 amended: step(Chain(Nop, f)) is f for every f; step(Chain(a, Nop))
\* is a for every a that is not a Chain, and for a = Chain(x, y) it is the
\* re-nested Chain(x, Chain(y, Nop))
C13_NopEliminatedUnlessChain ==
    (Finished("step") /\ IsChain(call.arg)) =>
        /\ call.arg[2] = Nop => ret = call.arg[3]
        /\ (call.arg[3] = Nop /\ ~IsChain(call.arg[2])) => ret = call.arg[2]
        /\ (call.arg[3] = Nop /\ IsChain(call.arg[2])) =>
              ret = Chain(call.arg[2][2], Chain(call.arg[2][3], Nop))

\* step(Chain(a, Nop)) has returned a, an a that step would rewrite
C13_Witness ==
    /\ Finished("step") /\ IsChain(call.arg)
    /\ call.arg[3] = Nop /\ ret = call.arg[2]
    /\ Tag(call.arg[2]) = "Subtract" /\ step(call.arg[2]) # call.arg[2]

\* list v without every element that occurs in list w
Without(v, w) == SelectSeq(v, LAMBDA x : \A i \in 1..Len(w) : w[i] # x)

\* the last call was step(Subtract(Compose(av), Compose(bv))), now returned
SteppedSubtractOfComposes ==
    /\ Finished("step") /\ Tag(call.arg) = "Subtract"
    /\ IsCompose(call.arg[2]) /\ IsCompose(call.arg[3])

\* C14 as claimed: step(Subtract(Compose(av), Compose(bv))) is step applied
\* to Subtract(Compose(av'), Compose(bv')), av' being av without the
\* elements of bv and bv' being bv without the elements of av
C14_SubtractOfComposes ==
    SteppedSubtractOfComposes =>
        LET av == call.arg[2][2]
            bv == call.arg[3][2]
        IN ret = step(Subtract(Compose(Without(av, bv)), Compose(Without(bv, av))))

\* C14 amended: step(Subtract(Compose(av), Compose(bv))) is Empty when
\* av = bv, and otherwise Subtract(step(Compose(av')), step(Compose(bv')))
C14_SubtractOfComposesStepsEach ==
    SteppedSubtractOfComposes =>
        LET av == call.arg[2][2]
            bv == call.arg[3][2]
        IN ret = IF av = bv THEN Empty
                 ELSE Subtract(step(Compose(Without(av, bv))),
                               step(Compose(Without(bv, av))))

\* the two lists share an element and each keeps one of its own
C14_Witness ==
    /\ SteppedSubtractOfComposes
    /\ Len(call.arg[2][2]) = 2 /\ Len(call.arg[3][2]) = 2
    /\ call.arg[2][2][2] = call.arg[3][2][1]
    /\ ret = Subtract(call.arg[2][2][1], call.arg[3][2][2])
    /\ ret[2] # ret[3]

RECURSIVE Nodes(_)
\* the number of nodes of filter f
Nodes(f) ==
    CASE IsChain(f) \/ Tag(f) = "Subtract" -> 1 + Nodes(f[2]) + Nodes(f[3])
      [] IsCompose(f) ->
            LET sum[i \in 0..Len(f[2])] ==
                    IF i = 0 THEN 0 ELSE sum[i - 1] + Nodes(f[2][i])
            IN 1 + sum[Len(f[2])]
      [] OTHER -> 1

\* C18: simplify never grows a filter: simplify of the argument of every
\* call terminates with a filter of no more nodes than the argument, and a
\* call of simplify that has returned returned no more nodes than it was
\* given
C18_SimplifyNeverGrows ==
    /\ Nodes(simplify(call.arg)) <= Nodes(call.arg)
    /\ Finished("simplify") => Nodes(ret) <= Nodes(call.arg)

\* simplify has flattened a nested Compose and returned fewer nodes
C18_Witness ==
    /\ Finished("simplify")
    /\ IsCompose(call.arg) /\ \E i \in 1..Len(call.arg[2]) : IsCompose(call.arg[2][i])
    /\ Nodes(ret) < Nodes(call.arg)

RECURSIVE SubFilters(_)
\* f and every filter below it
SubFilters(f) ==
    {f} \cup
    CASE IsChain(f) \/ Tag(f) = "Subtract" -> SubFilters(f[2]) \cup SubFilters(f[3])
      [] IsCompose(f) -> UNION {SubFilters(f[2][i]) : i \in 1..Len(f[2])}
      [] OTHER -> {}

\* no rule of step's rule list rewrites h at its root
Settled(h) ==
    CASE IsSubdir(h) \/ IsPrefix(h) -> Len(h[2]) <= 1
      [] IsChain(h) -> h[2] # Nop /\ h[3] # Nop /\ ~IsChain(h[2])
      [] IsCompose(h) -> Len(h[2]) >= 2
      [] Tag(h) = "Subtract" -> h[2] # h[3] /\ h[2] # Empty /\ h[3] # Empty
      [] OTHER -> TRUE

\* C19: the fixed point of step is hereditary: when iterate has returned g,
\* step(h) is h for every sub-filter h of g, and g holds no Subdir or Prefix
\* of more than one component, no Chain with a Nop operand or a Chain as its
\* left operand, no Compose of fewer than two elements and no Subtract with
\* equal operands or an Empty operand
C19_FixedPointHereditary ==
    Finished("iterate") =>
        \A h \in SubFilters(ret) : step(h) = h /\ Settled(h)

\* iterate has returned a rewritten filter nested two levels deep: a Chain
\* whose right operand is a Compose list
C19_Witness ==
    /\ Finished("iterate")
    /\ ret # call.arg
    /\ IsChain(ret) /\ IsCompose(ret[3]) /\ Len(ret[3][2]) >= 2

\* table new holds every entry of table old, with the value old holds
Extends(new, old) == \A k \in DOMAIN old : Has(new, k) /\ new[k] = old[k]

\* C16: both memo tables are append-only and write-once in value: no step of
\* any thread, under any interleaving, removes an entry or changes the
\* value stored under a key
C16_TablesAppendOnly ==
    [][Extends(SIMPLIFIED', SIMPLIFIED) /\ Extends(OPTIMIZED', OPTIMIZED)]_vars

\* thread 1 stands at its insert for a key the table already holds, stored
\* by thread 2, which missed the same key and has returned
C16_Witness ==
    /\ DOMAIN th = Threads
    /\ Running(1, "simplify", "insert")
    /\ Has(SIMPLIFIED, Top(th[1].stack).original)
    /\ Top(th[1].stack).original # Top(th[1].stack).r
    /\ th[2].stack = <<>> /\ th[2].call.fn = "simplify"

RECURSIVE Rewrites(_)
\* f and the intermediate filters simplify(f) reaches: the result of each
\* rule application, up to the one that changes nothing
Rewrites(f) ==
    LET subs == SimplifySubs(f)
        result == SimplifyBuild(f, [i \in 1..Len(subs) |-> simplify(subs[i])])
    IN IF Converged(result, f) THEN {f} ELSE {f} \cup Rewrites(result)

\* C17: the simplify table only stores final normal forms: every stored
\* value is itself a key, stored under itself; and when a thread's
\* simplify(f) has returned r the table holds r under f and under every
\* intermediate filter of the rewriting of f
C17_OnlyNormalFormsStored ==
    /\ \A k \in DOMAIN SIMPLIFIED :
          /\ Has(SIMPLIFIED, SIMPLIFIED[k])
          /\ SIMPLIFIED[SIMPLIFIED[k]] = SIMPLIFIED[k]
    /\ \A t \in DOMAIN th :
          (th[t].stack = <<>> /\ th[t].call.fn = "simplify") =>
              \A g \in Rewrites(th[t].call.arg) :
                  Has(SIMPLIFIED, g) /\ SIMPLIFIED[g] = th[t].ret

\* a thread's simplify(f) has returned after two intermediate filters, while
\* the other thread is still running
C17_Witness ==
    /\ DOMAIN th = Threads
    /\ th[1].stack = <<>> /\ th[1].call.fn = "simplify"
    /\ Cardinality(Rewrites(th[1].call.arg)) >= 3
    /\ th[2].stack # <<>>

\* the guard holding table name's mutex belongs to the table operation its
\* thread's innermost call stands at
GuardCurrent(name) ==
    LET g == mutex[name]
    IN /\ g.owner \in DOMAIN th
       /\ th[g.owner].stack # <<>>
       /\ g = GuardOf(g.owner)
       /\ TableOf(Top(th[g.owner].stack).fn) = name

\* thread t has a step to take: the mutex it is about to lock is free, or it
\* has locked the mutex and goes on with the table operation
CanStep(t) ==
    /\ th[t].stack # <<>>
    /\ mutex[TableOf(Top(th[t].stack).fn)] \in {NoGuard, GuardOf(t)}

\* C15: a mutex is held only for the one lookup or insert its guard was
\* taken for, never while the thread is in a rule computation or a recursive
\* call; no thread stands at the lock of a mutex it holds; and while a call
\* is unfinished some thread has a step to take (no deadlock)
C15_MutexHeldForOneOperation ==
    /\ \A name \in Tables : mutex[name] # NoGuard => GuardCurrent(name)
    /\ \A t \in DOMAIN th :
          AtLock(t) => mutex[TableOf(Top(th[t].stack).fn)].owner # t
    /\ (\E t \in DOMAIN th : th[t].stack # <<>>) => \E t \in DOMAIN th : CanStep(t)

\* thread 2, inside a recursive call of simplify, waits at its insert for
\* the mutex thread 1 has locked for a lookup; the step table is in use too
C15_Witness ==
    /\ DOMAIN th = Threads
    /\ Locked(1, "simplify", "lookup")
    /\ Running(2, "simplify", "insert") /\ Len(th[2].stack) >= 2
    /\ AtLock(2) /\ ~CanStep(2)
    /\ DOMAIN OPTIMIZED # {}

====
